---- MODULE Spec2Model ----
(***************************************************************************)
(* Model of rauthy's common/src/utils.rs: the trusted-proxy aware client   *)
(* IP resolution (real_ip_from_req, real_ip_from_svc_req), the proxy trust *)
(* list (build_trusted_proxies, check_trusted_proxy) and the unverified    *)
(* token claims extraction (extract_token_claims_unverified).             *)
(*                                                                         *)
(* Text is a sequence of one-character strings, bytes are 0..255, an IPv4  *)
(* address is its four octets and an IPv6 address its eight 16-bit groups. *)
(***************************************************************************)
EXTENDS Integers, Sequences, FiniteSets, TLC

\* ------------------------------------------------------------ bounds

\* Longest token the claims extractor is given.
MaxTokenLen == 5

\* Most lines of a TRUSTED_PROXIES value handed to build_trusted_proxies.
MaxLines == 3

\* ------------------------------------------------- Option and Result

None == [some |-> FALSE]

Some(v) == [some |-> TRUE, val |-> v]

Ok(v) == [ok |-> TRUE, val |-> v]

\* ErrorResponse::new(error type, message)
Err(typ, msg) == [ok |-> FALSE, typ |-> typ, msg |-> msg]

\* a panic that unwinds through the call, with the message of the expect()
Panic(msg) == [ok |-> FALSE, typ |-> "panic", msg |-> msg]

\* the Err(err) of a library parser whose caller matches on Ok / Err
Failed(err) == [some |-> FALSE, err |-> err]

\* ------------------------------------------------------------- text

Digits == <<"0", "1", "2", "3", "4", "5", "6", "7", "8", "9">>

\* the digits char::to_digit(16) takes, in either case
HexDigits ==
    Digits \o <<"a", "b", "c", "d", "e", "f">> \o <<"A", "B", "C", "D", "E", "F">>

IsDigit(c) == \E i \in 1..Len(Digits) : Digits[i] = c

IsHexDigit(c) == \E i \in 1..Len(HexDigits) : HexDigits[i] = c

\* the value of the digit at position i of HexDigits
DigitAt(i) == IF i <= Len(Digits) + 6 THEN i - 1 ELSE i - 7

DigitVal(c) == DigitAt(CHOOSE i \in 1..Len(HexDigits) : HexDigits[i] = c)

\* char::is_whitespace on the characters the model's texts hold
IsWhitespace(c) == c \in {" ", "\n", "\r", "\t"}

RECURSIVE Pow(_, _)
Pow(b, e) == IF e = 0 THEN 1 ELSE b * Pow(b, e - 1)

Min(a, b) == IF a < b THEN a ELSE b

Max(a, b) == IF a > b THEN a ELSE b

\* s[from..to], empty when from > to
Slice(s, from, to) == SubSeq(s, from, to)

\* position of the first c in s, 0 when there is none (str::find)
Find(s, c) ==
    IF \E i \in 1..Len(s) : s[i] = c
    THEN CHOOSE i \in 1..Len(s) : s[i] = c /\ \A j \in 1..(i - 1) : s[j] # c
    ELSE 0

\* position of the last c in s, 0 when there is none (str::rfind)
RFind(s, c) ==
    IF \E i \in 1..Len(s) : s[i] = c
    THEN CHOOSE i \in 1..Len(s) : s[i] = c /\ \A j \in (i + 1)..Len(s) : s[j] # c
    ELSE 0

\* str::split(c): the pieces between the separators, always at least one;
\* p is the position of the first separator
RECURSIVE Split(_, _)
SplitAt(s, c, p) ==
    IF p = 0 THEN <<s>>
    ELSE <<Slice(s, 1, p - 1)>> \o Split(Slice(s, p + 1, Len(s)), c)

Split(s, c) == SplitAt(s, c, Find(s, c))

\* str::split_once(c): the text before and after the first c, at position p
SplitOnceAt(s, p) ==
    IF p = 0 THEN None
    ELSE Some(<<Slice(s, 1, p - 1), Slice(s, p + 1, Len(s))>>)

split_once(s, c) == SplitOnceAt(s, Find(s, c))

\* str::trim: leading and trailing whitespace removed
RECURSIVE TrimStart(_)
TrimStart(s) ==
    IF s # <<>> /\ IsWhitespace(Head(s)) THEN TrimStart(Tail(s)) ELSE s

RECURSIVE TrimEnd(_)
TrimEnd(s) ==
    IF s # <<>> /\ IsWhitespace(s[Len(s)])
    THEN TrimEnd(Slice(s, 1, Len(s) - 1)) ELSE s

trim(s) == TrimEnd(TrimStart(s))

\* a line without the "\r" that stood before its "\n"
StripCr(l) ==
    IF l # <<>> /\ l[Len(l)] = "\r" THEN Slice(l, 1, Len(l) - 1) ELSE l

\* str::lines: split after every "\n"; the "\n" and a "\r" before it are
\* not part of the line, and no line follows a final "\n"; p is the position
\* of the first "\n"
RECURSIVE lines(_)
LinesAt(s, p) ==
    IF p = 0 THEN <<s>>
    ELSE <<StripCr(Slice(s, 1, p - 1))>> \o lines(Slice(s, p + 1, Len(s)))

lines(s) == IF s = <<>> THEN <<>> ELSE LinesAt(s, Find(s, "\n"))

\* leading "0"s removed, but for the last digit
RECURSIVE TrimStartZeros(_)
TrimStartZeros(s) ==
    IF Len(s) > 1 /\ Head(s) = "0" THEN TrimStartZeros(Tail(s)) ELSE s

\* value of a run of decimal digits, of hex digits
RECURSIVE DecVal(_)
DecVal(s) ==
    IF s = <<>> THEN 0 ELSE DecVal(Slice(s, 1, Len(s) - 1)) * 10 + DigitVal(s[Len(s)])

RECURSIVE HexVal(_)
HexVal(s) ==
    IF s = <<>> THEN 0 ELSE HexVal(Slice(s, 1, Len(s) - 1)) * 16 + DigitVal(s[Len(s)])

\* ------------------------------------------------------ IP addresses

V4(o) == [fam |-> "v4", parts |-> o]

V6(g) == [fam |-> "v6", parts |-> g]

\* one octet of a dotted quad: 1 to 3 digits, no leading zero, at most 255
IsOctet(s) ==
    /\ Len(s) \in 1..3
    /\ \A i \in 1..Len(s) : IsDigit(s[i])
    /\ (Len(s) > 1 => s[1] # "0")
    /\ DecVal(s) <= 255

\* Ipv4Addr::from_str, p the pieces between the "."
Ipv4Of(p) ==
    IF Len(p) = 4 /\ \A i \in 1..4 : IsOctet(p[i])
    THEN Some(V4([i \in 1..4 |-> DecVal(p[i])]))
    ELSE None

ParseIpv4(s) == Ipv4Of(Split(s, "."))

\* one group of an IPv6 address: 1 to 4 hex digits
IsGroup(s) == Len(s) \in 1..4 /\ \A i \in 1..Len(s) : IsHexDigit(s[i])

\* The groups of one side of an IPv6 text: ":"-separated hex groups p, the
\* last of which may be a dotted quad q standing for two groups; None when a
\* piece is neither.
GroupsWithQuad(p, q) ==
    IF q.some /\ \A i \in 1..(Len(p) - 1) : IsGroup(p[i])
    THEN Some([i \in 1..(Len(p) - 1) |-> HexVal(p[i])]
              \o <<q.val.parts[1] * 256 + q.val.parts[2],
                   q.val.parts[3] * 256 + q.val.parts[4]>>)
    ELSE None

GroupsOf(p) ==
    IF \A i \in 1..Len(p) : IsGroup(p[i])
    THEN Some([i \in 1..Len(p) |-> HexVal(p[i])])
    ELSE GroupsWithQuad(p, ParseIpv4(p[Len(p)]))

Ipv6Groups(s) == IF s = <<>> THEN Some(<<>>) ELSE GroupsOf(Split(s, ":"))

\* positions i with s[i] = s[i+1] = ":"
DoubleColons(s) == {i \in 1..(Len(s) - 1) : s[i] = ":" /\ s[i + 1] = ":"}

\* an address written in full: eight groups g
Ipv6Full(s, g) ==
    IF s # <<>> /\ g.some /\ Len(g.val) = 8 THEN Some(V6(g.val)) ELSE None

\* an address written around one "::", which stands for at least one group
\* of zeros: the groups h before it (no dotted quad) and t after it
Ipv6Compressed(head, h, t) ==
    IF /\ h.some
       /\ t.some
       /\ Find(head, ".") = 0
       /\ Len(h.val) + Len(t.val) <= 7
    THEN Some(V6(h.val \o [i \in 1..(8 - Len(h.val) - Len(t.val)) |-> 0] \o t.val))
    ELSE None

Ipv6Around(s, p) ==
    Ipv6Compressed(Slice(s, 1, p - 1), Ipv6Groups(Slice(s, 1, p - 1)),
                   Ipv6Groups(Slice(s, p + 2, Len(s))))

\* Ipv6Addr::from_str, dc the positions of "::"
Ipv6Of(s, dc) ==
    IF dc = {} THEN Ipv6Full(s, Ipv6Groups(s))
    ELSE IF Cardinality(dc) > 1 THEN None
    ELSE Ipv6Around(s, CHOOSE i \in dc : TRUE)

ParseIpv6(s) == Ipv6Of(s, DoubleColons(s))

\* IpAddr::from_str: an IPv4 (v4 is its parse) or else an IPv6 address
V4OrV6(s, v4) == IF v4.some THEN v4 ELSE ParseIpv6(s)

IpAddrFromStr(s) == V4OrV6(s, ParseIpv4(s))

\* ------------------------------------------------------------- CIDR

\* bits of one part of an address of this family, and of the whole address
PartBits(fam) == IF fam = "v4" THEN 8 ELSE 16

FamBits(fam) == IF fam = "v4" THEN 32 ELSE 128

\* how many of the len prefix bits fall into part i
PrefixBitsIn(fam, len, i) ==
    Max(0, Min(PartBits(fam), len - (i - 1) * PartBits(fam)))

\* the number of values of the bits of part i after the prefix
HostSpan(fam, len, i) == Pow(2, PartBits(fam) - PrefixBitsIn(fam, len, i))

\* x with its low bits cleared, span the number of their values
ClearLow(x, span) == (x \div span) * span

\* the address with everything after the first len bits cleared
Network(ip, len) ==
    [fam |-> ip.fam,
     parts |-> [i \in 1..Len(ip.parts) |->
                  ClearLow(ip.parts[i], HostSpan(ip.fam, len, i))]]

\* u8::from_str: an optional "+", then digits d, at most 255
U8Val(d) == IF Len(d) <= 3 /\ DecVal(d) <= 255 THEN Some(DecVal(d)) ELSE None

U8Of(d) ==
    IF d # <<>> /\ \A i \in 1..Len(d) : IsDigit(d[i])
    THEN U8Val(TrimStartZeros(d))
    ELSE None

ParseU8(s) == U8Of(IF s # <<>> /\ s[1] = "+" THEN Tail(s) ELSE s)

\* cidr::IpCidr::from_str: "address/length" with no host bit set, or a bare
\* address, which is the one-address block; p is the position of the last
\* "/", a the parsed address and l the parsed length
\* The error of a failed parse is cidr's NetworkParseError, held as the
\* message of its variant.
CidrOf(p, a, l) ==
    IF ~a.some THEN Failed("invalid IP address syntax")
    ELSE IF p = 0 THEN Some([addr |-> a.val, len |-> FamBits(a.val.fam)])
    ELSE IF ~l.some THEN Failed("couldn't parse length in network")
    ELSE IF l.val > FamBits(a.val.fam) THEN Failed("invalid length for network")
    ELSE IF Network(a.val, l.val) # a.val
    THEN Failed("host part of address was not zero")
    ELSE Some([addr |-> a.val, len |-> l.val])

CidrAt(s, p) ==
    CidrOf(p, IpAddrFromStr(IF p = 0 THEN s ELSE Slice(s, 1, p - 1)),
           ParseU8(Slice(s, p + 1, Len(s))))

IpCidrFromStr(s) == CidrAt(s, RFind(s, "/"))

\* Mutant of Contains: the prefix compared is one bit short.
Contains_ShortPrefix(cidr, ip) ==
    /\ cidr.addr.fam = ip.fam
    /\ Network(ip, Max(0, cidr.len - 1)) = Network(cidr.addr, Max(0, cidr.len - 1))

\* cidr::IpCidr::contains: same family and the same first len bits
Contains(cidr, ip) ==
    /\ cidr.addr.fam = ip.fam
    /\ Network(ip, cidr.len) = cidr.addr

\* -------------------------------------------------- state of the program

VARIABLES
    env_TRUSTED_PROXIES,  \* the TRUSTED_PROXIES environment variable, if set
    TRUSTED_PROXIES,      \* constants::TRUSTED_PROXIES, the parsed trust list
    built,                \* whether the trust list has been initialised
    poisoned,             \* whether its initialisation has panicked
    PEER_IP_HEADER_NAME,  \* constants::PEER_IP_HEADER_NAME, Option<String>
    PROXY_MODE,           \* constants::PROXY_MODE
    req,                  \* the request of the last resolver call
    out,                  \* what the last call returned, logged and read
    token,                \* the token of the last extract call
    claims                \* what the last extract call returned and logged

vars == <<env_TRUSTED_PROXIES, TRUSTED_PROXIES, built, poisoned, PEER_IP_HEADER_NAME,
          PROXY_MODE, req, out, token, claims>>

\* one line of the tracing output: the level, the format string and what
\* is formatted into it
Log(level, msg, arg) == [level |-> level, msg |-> msg, arg |-> arg]

\* ---------------------------------------------------- proxy trust list

\* Mutant of BuildLine: a line that is no CIDR ends the loop.
BuildLine_Abort(trimmed, cidr, rest) ==
    IF trimmed = <<>> THEN rest
    ELSE IF cidr.some
    THEN [rest EXCEPT !.proxies = <<cidr.val>> \o @]
    ELSE [proxies |-> <<>>, panic |-> FALSE,
          log |-> <<Log("error", "Cannot parse trusted proxy entry to CIDR: {}",
                        [err |-> cidr.err])>>]

\* One pass of the loop of build_trusted_proxies: trimmed is the trimmed
\* line, cidr its parse, rest what the following lines give.
BuildLine(trimmed, cidr, rest) ==
    IF trimmed = <<>> THEN rest
    ELSE IF cidr.some
    THEN [rest EXCEPT !.proxies = <<cidr.val>> \o @]
    ELSE [rest EXCEPT !.log =
            <<Log("error", "Cannot parse trusted proxy entry to CIDR: {}",
                  [err |-> cidr.err])>> \o @]

\* the loop of build_trusted_proxies over the lines from index i on
RECURSIVE BuildFrom(_, _)
BuildFrom(ls, i) ==
    IF i > Len(ls) THEN [proxies |-> <<>>, log |-> <<>>, panic |-> FALSE]
    ELSE BuildLine(trim(ls[i]), IpCidrFromStr(trim(ls[i])), BuildFrom(ls, i + 1))

\* raw is env::var("TRUSTED_PROXIES"); expect() panics when it is not set
build_trusted_proxies(raw) ==
    IF ~raw.some
    THEN [proxies |-> <<>>, log |-> <<>>, panic |-> TRUE,
          msg |-> "TRUSTED_PROXIES is not net set"]
    ELSE BuildFrom(lines(raw.val), 1)

\* the loop of check_trusted_proxy over the trust list from index i on
RECURSIVE AnyContains(_, _, _)
AnyContains(proxies, i, peer_ip) ==
    IF i > Len(proxies) THEN FALSE
    ELSE IF Contains(proxies[i], peer_ip) THEN TRUE
    ELSE AnyContains(proxies, i + 1, peer_ip)

\* &*TRUSTED_PROXIES: the static is initialised by build_trusted_proxies on
\* its first use, inside the call that uses it; later uses find the list.
\* A build that panicked is not run again: every later use panics.
Deref ==
    IF poisoned
    THEN [proxies |-> <<>>, log |-> <<>>, panic |-> TRUE,
          msg |-> "Once instance has previously been poisoned"]
    ELSE IF built THEN [proxies |-> TRUSTED_PROXIES, log |-> <<>>, panic |-> FALSE]
    ELSE build_trusted_proxies(env_TRUSTED_PROXIES)

\* Mutant of CheckIn: the rejection is not logged.
CheckIn_Silent(list, peer_ip) ==
    IF list.panic
    THEN [res |-> Panic(list.msg), log |-> list.log]
    ELSE IF AnyContains(list.proxies, 1, peer_ip)
    THEN [res |-> Ok(<<>>), log |-> list.log]
    ELSE [res |-> Err("BadRequest", "Invalid IP Address"), log |-> list.log]

\* check_trusted_proxy with list what &*TRUSTED_PROXIES gave
CheckIn(list, peer_ip) ==
    IF list.panic
    THEN [res |-> Panic(list.msg), log |-> list.log]
    ELSE IF AnyContains(list.proxies, 1, peer_ip)
    THEN [res |-> Ok(<<>>), log |-> list.log]
    ELSE [res |-> Err("BadRequest", "Invalid IP Address"),
          log |-> list.log
                    \o <<Log("error",
                             "Invalid request from IP {} which is not a trusted proxy",
                             [ip |-> peer_ip])>>]

check_trusted_proxy(peer_ip) == CheckIn(Deref, peer_ip)

\* ------------------------------------------------------------ resolver

\* the match on IpAddr::from_str(peer) of parse_peer_addr
PeerIp(ip) ==
    IF ip.some THEN Ok(ip.val)
    ELSE Err("BadRequest", "Cannot parse peer IP address: invalid IP address syntax")

\* Mutant of parse_peer_addr: a missing address is reported as unparsable.
parse_peer_addr_OneError(peer_addr) ==
    IF ~peer_addr.some
    THEN Err("BadRequest", "Cannot parse peer IP address: invalid IP address syntax")
    ELSE PeerIp(IpAddrFromStr(peer_addr.val))

parse_peer_addr(peer_addr) ==
    IF ~peer_addr.some
    THEN Err("BadRequest",
             "No IP Addr in Connection Info - this should only happen in tests")
    ELSE PeerIp(IpAddrFromStr(peer_addr.val))

\* HeaderMap::get
HeaderGet(headers, name) ==
    IF name \in DOMAIN headers THEN Some(headers[name]) ELSE None

\* HeaderValue::to_str: the text of a value of visible ASCII only
to_str(value) == IF value.text THEN Ok(value.str) ELSE Err("ToStrError", "")

\* the trace! line of ip_from_cust_header
NoPeerIp(header_name) ==
    Log("trace", "no PEER IP from PEER_IP_HEADER_NAME: '{}'", [name |-> header_name])

\* Mutant of HeaderIp: a value that is no IP address counts as 0.0.0.0.
HeaderIp_Default(header_name, ip) ==
    IF ip.some THEN [res |-> Some(ip.val), log |-> <<>>]
    ELSE [res |-> Some(V4(<<0, 0, 0, 0>>)), log |-> <<>>]

\* the match on IpAddr::from_str(value) of ip_from_cust_header
HeaderIp(header_name, ip) ==
    IF ip.some THEN [res |-> Some(ip.val), log |-> <<>>]
    ELSE [res |-> None,
          log |-> <<Log("error", "Cannot parse IP from PEER_IP_HEADER_NAME: {}",
                        [err |-> "invalid IP address syntax"]),
                    NoPeerIp(header_name)>>]

\* the if let Some(Ok(value)) of ip_from_cust_header, value the header's
HeaderValueIp(header_name, value) ==
    IF value.some /\ to_str(value.val).ok
    THEN HeaderIp(header_name, IpAddrFromStr(to_str(value.val).val))
    ELSE [res |-> None, log |-> <<NoPeerIp(header_name)>>]

ip_from_cust_header(headers) ==
    IF ~PEER_IP_HEADER_NAME.some THEN [res |-> None, log |-> <<>>]
    ELSE HeaderValueIp(PEER_IP_HEADER_NAME.val,
                       HeaderGet(headers, PEER_IP_HEADER_NAME.val))

\* real_ip_from_req over what its calls return: peer_ip of
\* parse_peer_addr(peer_addr), hdr of ip_from_cust_header, chk of
\* check_trusted_proxy(peer_ip) and realip of
\* parse_peer_addr(realip_remote_addr), each evaluated only where the code
\* makes the call.  The fields of a result: res the returned Result, log the
\* tracing output, reads what the call consulted, in order.

\* Mutant of ReqOverride: the result of the trust check is dropped.
ReqOverride_Unchecked(hdr, chk) ==
    [res |-> Ok(hdr.res.val),
     log |-> hdr.log \o chk.log,
     reads |-> <<"peer_addr", "headers", "TRUSTED_PROXIES">>]

\* if let Some(ip) = ip_from_cust_header(..): the trust check, then the
\* header's address
ReqOverride(hdr, chk) ==
    [res |-> IF chk.res.ok THEN Ok(hdr.res.val) ELSE chk.res,
     log |-> hdr.log \o chk.log,
     reads |-> <<"peer_addr", "headers", "TRUSTED_PROXIES">>]

\* Mutant of ReqFallback: the forwarded address is taken from any peer.
ReqFallback_Unchecked(hdr, chk, realip) ==
    [res |-> realip,
     log |-> hdr.log,
     reads |-> <<"peer_addr", "headers", "realip_remote_addr">>]

\* else if *PROXY_MODE: the trust check, then the parsed realip_remote_addr
ReqFallback(hdr, chk, realip) ==
    IF chk.res.ok
    THEN [res |-> realip,
          log |-> hdr.log \o chk.log,
          reads |-> <<"peer_addr", "headers", "TRUSTED_PROXIES", "realip_remote_addr">>]
    ELSE [res |-> chk.res,
          log |-> hdr.log \o chk.log,
          reads |-> <<"peer_addr", "headers", "TRUSTED_PROXIES">>]

\* Mutant of ReqDirect: the peer itself must be a trusted proxy.
ReqDirect_Checked(peer_ip, hdr) ==
    [res |-> IF check_trusted_proxy(peer_ip.val).res.ok THEN peer_ip
             ELSE check_trusted_proxy(peer_ip.val).res,
     log |-> hdr.log \o check_trusted_proxy(peer_ip.val).log,
     reads |-> <<"peer_addr", "headers", "TRUSTED_PROXIES">>]

\* else: the peer address
ReqDirect(peer_ip, hdr) ==
    [res |-> peer_ip, log |-> hdr.log, reads |-> <<"peer_addr", "headers">>]

\* Mutant of ReqResolve: the proxy mode is tried before the header.
ReqResolve_ProxyFirst(peer_ip, hdr, chk, realip) ==
    IF ~peer_ip.ok
    THEN [res |-> peer_ip, log |-> <<>>, reads |-> <<"peer_addr">>]
    ELSE IF PROXY_MODE THEN ReqFallback(hdr, chk, realip)
    ELSE IF hdr.res.some THEN ReqOverride(hdr, chk)
    ELSE ReqDirect(peer_ip, hdr)

ReqResolve(peer_ip, hdr, chk, realip) ==
    IF ~peer_ip.ok
    THEN [res |-> peer_ip, log |-> <<>>, reads |-> <<"peer_addr">>]
    ELSE IF hdr.res.some THEN ReqOverride(hdr, chk)
    ELSE IF PROXY_MODE THEN ReqFallback(hdr, chk, realip)
    ELSE ReqDirect(peer_ip, hdr)

\* peer_ip is the call's parse_peer_addr(peer_addr)
ReqWithPeer(r, peer_ip) ==
    ReqResolve(peer_ip, ip_from_cust_header(r.headers),
               check_trusted_proxy(peer_ip.val),
               parse_peer_addr(r.realip_remote_addr))

real_ip_from_req(r) == ReqWithPeer(r, parse_peer_addr(r.peer_addr))

\* The same for real_ip_from_svc_req.

\* if let Some(ip) = ip_from_cust_header(..): the trust check, then the
\* header's address
SvcReqOverride(hdr, chk) ==
    [res |-> IF chk.res.ok THEN Ok(hdr.res.val) ELSE chk.res,
     log |-> hdr.log \o chk.log,
     reads |-> <<"peer_addr", "headers", "TRUSTED_PROXIES">>]

\* else if *PROXY_MODE: the trust check, then the parsed realip_remote_addr
SvcReqFallback(hdr, chk, realip) ==
    IF chk.res.ok
    THEN [res |-> realip,
          log |-> hdr.log \o chk.log,
          reads |-> <<"peer_addr", "headers", "TRUSTED_PROXIES", "realip_remote_addr">>]
    ELSE [res |-> chk.res,
          log |-> hdr.log \o chk.log,
          reads |-> <<"peer_addr", "headers", "TRUSTED_PROXIES">>]

\* else: the peer address
SvcReqDirect(peer_ip, hdr) ==
    [res |-> peer_ip, log |-> hdr.log, reads |-> <<"peer_addr", "headers">>]

SvcReqResolve(peer_ip, hdr, chk, realip) ==
    IF ~peer_ip.ok
    THEN [res |-> peer_ip, log |-> <<>>, reads |-> <<"peer_addr">>]
    ELSE IF hdr.res.some THEN SvcReqOverride(hdr, chk)
    ELSE IF PROXY_MODE THEN SvcReqFallback(hdr, chk, realip)
    ELSE SvcReqDirect(peer_ip, hdr)

\* peer_ip is the call's parse_peer_addr(peer_addr)
SvcReqWithPeer(r, peer_ip) ==
    SvcReqResolve(peer_ip, ip_from_cust_header(r.headers),
                  check_trusted_proxy(peer_ip.val),
                  parse_peer_addr(r.realip_remote_addr))

real_ip_from_svc_req(r) == SvcReqWithPeer(r, parse_peer_addr(r.peer_addr))

\* ------------------------------------------------- claims extraction

\* the URL-safe base64 alphabet: the symbol of value v is B64Url[v + 1]
B64Url ==
    <<"A", "B", "C", "D", "E", "F", "G", "H", "I", "J", "K", "L", "M", "N", "O", "P",
      "Q", "R", "S", "T", "U", "V", "W", "X", "Y", "Z", "a", "b", "c", "d", "e", "f",
      "g", "h", "i", "j", "k", "l", "m", "n", "o", "p", "q", "r", "s", "t", "u", "v",
      "w", "x", "y", "z", "0", "1", "2", "3", "4", "5", "6", "7", "8", "9", "-", "_">>

IsB64Sym(c) == \E i \in 1..Len(B64Url) : B64Url[i] = c

B64Val(c) == (CHOOSE i \in 1..Len(B64Url) : B64Url[i] = c) - 1

\* the bytes of a run of 6-bit values: three bytes of every four values, and
\* one or two bytes of a final two or three
RECURSIVE B64Bytes(_)
B64Bytes(v) ==
    IF Len(v) < 2 THEN <<>>
    ELSE IF Len(v) = 2 THEN <<v[1] * 4 + v[2] \div 16>>
    ELSE IF Len(v) = 3
    THEN <<v[1] * 4 + v[2] \div 16, (v[2] % 16) * 16 + v[3] \div 4>>
    ELSE <<v[1] * 4 + v[2] \div 16, (v[2] % 16) * 16 + v[3] \div 4,
           (v[3] % 4) * 64 + v[4]>> \o B64Bytes(Slice(v, 5, Len(v)))

\* B64_URL_SAFE_NO_PAD.decode: every character a symbol of the alphabet (no
\* "=" padding), no single left-over symbol, no left-over bits set
B64UrlNoPadDecode(b64) ==
    IF /\ \A i \in 1..Len(b64) : IsB64Sym(b64[i])
       /\ Len(b64) % 4 # 1
       /\ (Len(b64) % 4 = 2 => B64Val(b64[Len(b64)]) % 16 = 0)
       /\ (Len(b64) % 4 = 3 => B64Val(b64[Len(b64)]) % 4 = 0)
    THEN Ok(B64Bytes([i \in 1..Len(b64) |-> B64Val(b64[i])]))
    ELSE Err("DecodeError", "")

\* byte i of b exists and lies in lo..hi
ByteIn(b, i, lo, hi) == i <= Len(b) /\ b[i] >= lo /\ b[i] <= hi

\* the second byte of a three-byte and of a four-byte sequence is in range
Second3(b) ==
    IF b[1] = 224 THEN ByteIn(b, 2, 160, 191)
    ELSE IF b[1] = 237 THEN ByteIn(b, 2, 128, 159) ELSE ByteIn(b, 2, 128, 191)

Second4(b) ==
    IF b[1] = 240 THEN ByteIn(b, 2, 144, 191)
    ELSE IF b[1] = 244 THEN ByteIn(b, 2, 128, 143) ELSE ByteIn(b, 2, 128, 191)

\* The first character of the bytes b and the number of bytes it takes: the
\* code point of a valid sequence, or U+FFFD (65533) for the longest prefix
\* of b that starts no valid sequence.
Utf8First(b) ==
    IF b[1] < 128 THEN <<b[1], 1>>
    ELSE IF b[1] \in 194..223
    THEN IF ByteIn(b, 2, 128, 191) THEN <<(b[1] - 192) * 64 + (b[2] - 128), 2>>
         ELSE <<65533, 1>>
    ELSE IF b[1] \in 224..239
    THEN IF ~Second3(b) THEN <<65533, 1>>
         ELSE IF ~ByteIn(b, 3, 128, 191) THEN <<65533, 2>>
         ELSE <<(b[1] - 224) * 4096 + (b[2] - 128) * 64 + (b[3] - 128), 3>>
    ELSE IF b[1] \in 240..244
    THEN IF ~Second4(b) THEN <<65533, 1>>
         ELSE IF ~ByteIn(b, 3, 128, 191) THEN <<65533, 2>>
         ELSE IF ~ByteIn(b, 4, 128, 191) THEN <<65533, 3>>
         ELSE <<(b[1] - 240) * 262144 + (b[2] - 128) * 4096 + (b[3] - 128) * 64
                    + (b[4] - 128), 4>>
    ELSE <<65533, 1>>

\* String::from_utf8_lossy: the code points of the bytes, every invalid
\* sequence replaced by U+FFFD
RECURSIVE from_utf8_lossy(_)
Utf8Rest(b, first) ==
    <<first[1]>> \o from_utf8_lossy(Slice(b, first[2] + 1, Len(b)))

from_utf8_lossy(b) == IF b = <<>> THEN <<>> ELSE Utf8Rest(b, Utf8First(b))

\* JSON whitespace: space, line feed, carriage return, tab
IsJsonWs(c) == c \in {32, 10, 13, 9}

RECURSIVE SkipWsStart(_)
SkipWsStart(s) == IF s # <<>> /\ IsJsonWs(Head(s)) THEN SkipWsStart(Tail(s)) ELSE s

RECURSIVE SkipWsEnd(_)
SkipWsEnd(s) ==
    IF s # <<>> /\ IsJsonWs(s[Len(s)]) THEN SkipWsEnd(Slice(s, 1, Len(s) - 1)) ELSE s

RECURSIVE CodeDecVal(_)
CodeDecVal(s) ==
    IF s = <<>> THEN 0 ELSE CodeDecVal(Slice(s, 1, Len(s) - 1)) * 10 + (s[Len(s)] - 48)

\* serde_json::from_str::<T> for the caller's shape T = u64: one unsigned
\* integer without a leading zero, whitespace allowed around it; d is the
\* text without that whitespace.  (Texts of 20 digits and more, which may
\* exceed u64, are beyond the model's tokens.)
U64Of(d) ==
    IF /\ d # <<>>
       /\ \A i \in 1..Len(d) : d[i] \in 48..57
       /\ (Len(d) > 1 => d[1] # 48)
    THEN Ok(CodeDecVal(d))
    ELSE Err("serde_json::Error", "")

from_str(s) == U64Of(SkipWsEnd(SkipWsStart(s)))

\* the body of a token: the text between its first and its second "."; first
\* is the first split_once, second the split_once of what follows
BodyOf(first, second) ==
    IF ~first.some THEN None
    ELSE IF second.some THEN Some(second.val[1]) ELSE None

\* Mutant of TokenBody: the rest is split at its last ".".
TokenBody_RSplit(tok, first) ==
    BodyOf(first, SplitOnceAt(first.val[2], RFind(first.val[2], ".")))

TokenBody(tok, first) == BodyOf(first, split_once(first.val[2], "."))

\* The body of extract_token_claims_unverified from the decoding on: b64 is
\* the decoded body and cl the deserialized claims.  The fields of the result:
\* res the returned Result, log the tracing output, steps the steps taken.
ExtractDecoded(body, b64, cl) ==
    IF ~b64.ok
    THEN [res |-> Err("BadRequest", "Invalid JWT Token body"),
          log |-> <<Log("error", "Error decoding JWT token body '{}' from base64: {}",
                        [body |-> body.val])>>,
          steps |-> <<"split", "decode">>]
    ELSE IF ~cl.ok
    THEN [res |-> Err("BadRequest", "Invalid JWT Token claims"),
          log |-> <<Log("error", "Error deserializing JWT Token claims: {}",
                        [err |-> "serde_json::Error"])>>,
          steps |-> <<"split", "decode", "deserialize">>]
    ELSE [res |-> Ok(cl.val), log |-> <<>>,
          steps |-> <<"split", "decode", "deserialize">>]

ExtractBody(body, b64) ==
    ExtractDecoded(body, b64, from_str(from_utf8_lossy(b64.val)))

ExtractFrom(body) ==
    IF ~body.some
    THEN [res |-> Err("Unauthorized", "Invalid or malformed JWT Token"),
          log |-> <<>>,
          steps |-> <<"split">>]
    ELSE ExtractBody(body, B64UrlNoPadDecode(body.val))

extract_token_claims_unverified(tok) == ExtractFrom(TokenBody(tok, split_once(tok, ".")))

\* ------------------------------------------------------------- inputs

\* Display of an unsigned integer, of an Ipv4Addr and of an IPv4 block
RECURSIVE DecText(_)
DecText(n) ==
    IF n < 10 THEN <<Digits[n + 1]>> ELSE DecText(n \div 10) \o <<Digits[(n % 10) + 1]>>

Ipv4Text(o) ==
    DecText(o[1]) \o <<".">> \o DecText(o[2]) \o <<".">> \o DecText(o[3])
        \o <<".">> \o DecText(o[4])

Cidr4Text(o, len) == Ipv4Text(o) \o <<"/">> \o DecText(len)

\* texts of IPv6 addresses and blocks, with hex digits of either case, and
\* a text that is no address
FD00_8 == <<"F", "d", "0", "0", ":", ":", "/", "8">>

FD00_1 == <<"f", "d", "0", "0", ":", ":", "1">>

DB8_7 == <<"2", "0", "0", "1", ":", "D", "B", "8", ":", ":", "7">>

UNKNOWN == <<"u", "n", "k", "n", "o", "w", "n">>

\* the indentation of the lines of the unit test's TRUSTED_PROXIES value
Indent == [i \in 1..12 |-> " "]

\* TRUSTED_PROXIES of test_trusted_proxy_check
TestProxies ==
    <<"\n">> \o Indent \o Cidr4Text(<<192, 168, 100, 0>>, 24)
        \o <<"\n">> \o Indent \o Cidr4Text(<<192, 168, 0, 96>>, 28)
        \o <<"\n">> \o Indent \o Cidr4Text(<<172, 16, 0, 1>>, 32)
        \o <<"\n">> \o Indent \o Cidr4Text(<<10, 10, 10, 10>>, 31)

\* an IPv6 block, a line with host bits set (no CIDR), a blank line and an
\* IPv4 block, with "\r\n" and "\n" line ends
MixedProxies ==
    FD00_8 \o <<"\r", "\n">> \o Cidr4Text(<<10, 0, 0, 1>>, 8) \o <<"\n", "\n", " ">>
        \o Cidr4Text(<<172, 16, 0, 0>>, 12) \o <<" ">>

RawConfigs == {TestProxies, MixedProxies, <<>>}

HeaderName == "cf-connecting-ip"

PeerTexts ==
    {Ipv4Text(<<192, 168, 100, 1>>), Ipv4Text(<<192, 168, 99, 255>>),
     Ipv4Text(<<172, 16, 0, 1>>), FD00_1,
     Ipv4Text(<<10, 10, 10, 10>>) \o <<":", "8", "0">>, <<>>}

PeerAddrs == {None} \cup {Some(t) : t \in PeerTexts}

TextValue(t) == [text |-> TRUE, str |-> t]

\* a header value holding bytes that are not visible ASCII
OpaqueValue == [text |-> FALSE]

HeaderValues ==
    {TextValue(Ipv4Text(<<203, 0, 113, 7>>)), TextValue(DB8_7),
     TextValue(Ipv4Text(<<192, 168, 100, 1>>)),
     TextValue(Ipv4Text(<<203, 0, 113, 7>>) \o <<",">>), TextValue(<<>>),
     OpaqueValue}

HeaderMaps ==
    {<<>>, "x-real-ip" :> TextValue(Ipv4Text(<<203, 0, 113, 7>>))}
        \cup {HeaderName :> v : v \in HeaderValues}

\* realip_remote_addr() of a connection whose peer_addr() is peer_addr: what
\* the forwarding headers name, an address or any other text, else the peer
\* address itself; there is none only where there is no peer address
ForwardedAddrs(peer_addr) ==
    {peer_addr, Some(Ipv4Text(<<198, 51, 100, 9>>)), Some(DB8_7), Some(UNKNOWN)}

Requests ==
    UNION {[peer_addr : {p}, headers : HeaderMaps,
            realip_remote_addr : ForwardedAddrs(p)] : p \in PeerAddrs}

\* address arithmetic for the addresses around a block
Top(ip) == Pow(2, PartBits(ip.fam)) - 1

RECURSIVE SuccParts(_, _, _)
SuccParts(parts, i, top) ==
    IF i = 0 THEN parts
    ELSE IF parts[i] = top THEN SuccParts([parts EXCEPT ![i] = 0], i - 1, top)
    ELSE [parts EXCEPT ![i] = @ + 1]

RECURSIVE PredParts(_, _, _)
PredParts(parts, i, top) ==
    IF i = 0 THEN parts
    ELSE IF parts[i] = 0 THEN PredParts([parts EXCEPT ![i] = top], i - 1, top)
    ELSE [parts EXCEPT ![i] = @ - 1]

\* the address after and before ip (wrapping around)
SuccIp(ip) == [ip EXCEPT !.parts = SuccParts(ip.parts, Len(ip.parts), Top(ip))]

PredIp(ip) == [ip EXCEPT !.parts = PredParts(ip.parts, Len(ip.parts), Top(ip))]

\* first and last address of a block
FirstIp(cidr) == cidr.addr

LastIp(cidr) ==
    [cidr.addr EXCEPT !.parts =
        [i \in 1..Len(cidr.addr.parts) |->
            cidr.addr.parts[i]
                + Pow(2, PartBits(cidr.addr.fam)
                         - PrefixBitsIn(cidr.addr.fam, cidr.len, i)) - 1]]

\* the addresses check_trusted_proxy is probed with: the ends of every block of
\* the list, their neighbours, and addresses of both families
ProbesOf(proxies) ==
    UNION {{FirstIp(proxies[i]), LastIp(proxies[i]),
            PredIp(FirstIp(proxies[i])), SuccIp(LastIp(proxies[i]))}
           : i \in 1..Len(proxies)}
        \cup {V4(<<192, 168, 0, 111>>), V4(<<192, 168, 0, 112>>), V4(<<0, 0, 0, 0>>),
              V6(<<0, 0, 0, 0, 0, 0, 0, 1>>),
              V6(<<0, 0, 0, 0, 0, 65535, 49320, 25601>>),
              V6(<<49320, 25600, 0, 0, 0, 0, 0, 0>>)}

ProbeIps == ProbesOf(Deref.proxies)

\* the lines a TRUSTED_PROXIES value is made of
ConfigLines ==
    {<<>>, <<" ", "\t">>, Cidr4Text(<<10, 0, 0, 0>>, 8),
     <<" ">> \o Cidr4Text(<<192, 168, 0, 96>>, 28) \o <<" ", "\r">>,
     Cidr4Text(<<10, 0, 0, 1>>, 8), Ipv4Text(<<172, 16, 0, 1>>),
     Cidr4Text(<<10, 0, 0, 0>>, 33), FD00_8, UNKNOWN}

RECURSIVE Join(_)
Join(ls) ==
    IF ls = <<>> THEN <<>>
    ELSE IF Len(ls) = 1 THEN ls[1]
    ELSE ls[1] \o <<"\n">> \o Join(Tail(ls))

BuildInputs == {Join(ls) : ls \in UNION {[1..n -> ConfigLines] : n \in 0..MaxLines}}

\* the characters of the tokens: the separator, base64 symbols whose bytes
\* are digits, whitespace and non-UTF-8, and "=", no symbol of the alphabet
TokenChars == {".", "M", "Q", "T", "D", "-", "="}

Tokens == UNION {[1..n -> TokenChars] : n \in 0..MaxTokenLen}

\* ------------------------------------------------------ state machine

NoCall == [fn |-> "none"]

\* what a call of build_trusted_proxies and of check_trusted_proxy leaves
BuildResult(b) ==
    [res |-> b.proxies, log |-> b.log, reads |-> <<>>, panic |-> b.panic]

CheckResult(c) == [res |-> c.res, log |-> c.log, reads |-> <<"TRUSTED_PROXIES">>]

\* whether the call that left o used the TRUSTED_PROXIES static
UsesTrustList(o) == \E i \in 1..Len(o.reads) : o.reads[i] = "TRUSTED_PROXIES"

Init ==
    /\ env_TRUSTED_PROXIES \in {None} \cup {Some(raw) : raw \in RawConfigs}
    /\ TRUSTED_PROXIES = <<>>
    /\ built = FALSE
    /\ poisoned = FALSE
    /\ PEER_IP_HEADER_NAME \in {None, Some(HeaderName)}
    /\ PROXY_MODE \in BOOLEAN
    /\ req = NoCall
    /\ out = NoCall
    /\ token = <<>>
    /\ claims = NoCall

\* A call of build_trusted_proxies itself, as in test_trusted_proxy_check:
\* the list is returned, the static is not touched.
BuildTrustedProxies ==
    /\ out = NoCall
    /\ out' = BuildResult(build_trusted_proxies(env_TRUSTED_PROXIES))
    /\ req' = [fn |-> "build_trusted_proxies"]
    /\ UNCHANGED <<env_TRUSTED_PROXIES, TRUSTED_PROXIES, built, poisoned,
                   PEER_IP_HEADER_NAME, PROXY_MODE, token, claims>>

\* The static after the call that leaves out': a first use has initialised
\* it, or has poisoned it when the build panicked.
StaticAfter ==
    /\ TRUSTED_PROXIES' = IF UsesTrustList(out') THEN Deref.proxies
                          ELSE TRUSTED_PROXIES
    /\ built' = (built \/ (UsesTrustList(out') /\ ~Deref.panic))
    /\ poisoned' = (poisoned \/ (UsesTrustList(out') /\ Deref.panic))

CheckTrustedProxy ==
    /\ out = NoCall
    /\ \E ip \in ProbeIps :
          /\ req' = [fn |-> "check_trusted_proxy", peer_ip |-> ip]
          /\ out' = CheckResult(check_trusted_proxy(ip))
    /\ StaticAfter
    /\ UNCHANGED <<env_TRUSTED_PROXIES, PEER_IP_HEADER_NAME, PROXY_MODE, token, claims>>

RealIpFromReq ==
    /\ out = NoCall
    /\ \E r \in Requests :
          /\ req' = [fn |-> "real_ip_from_req", peer_addr |-> r.peer_addr,
                     headers |-> r.headers,
                     realip_remote_addr |-> r.realip_remote_addr,
                     initialised |-> built, poisoned |-> poisoned]
          /\ out' = real_ip_from_req(r)
    /\ StaticAfter
    /\ UNCHANGED <<env_TRUSTED_PROXIES, PEER_IP_HEADER_NAME, PROXY_MODE, token, claims>>

RealIpFromSvcReq ==
    /\ out = NoCall
    /\ \E r \in Requests :
          /\ req' = [fn |-> "real_ip_from_svc_req", peer_addr |-> r.peer_addr,
                     headers |-> r.headers,
                     realip_remote_addr |-> r.realip_remote_addr,
                     initialised |-> built, poisoned |-> poisoned]
          /\ out' = real_ip_from_svc_req(r)
    /\ StaticAfter
    /\ UNCHANGED <<env_TRUSTED_PROXIES, PEER_IP_HEADER_NAME, PROXY_MODE, token, claims>>

ExtractTokenClaimsUnverified ==
    /\ claims = NoCall
    /\ \E t \in Tokens :
          /\ token' = t
          /\ claims' = extract_token_claims_unverified(t)
    /\ UNCHANGED <<env_TRUSTED_PROXIES, TRUSTED_PROXIES, built, poisoned,
                   PEER_IP_HEADER_NAME, PROXY_MODE, req, out>>

\* The call returns: nothing of a call is kept for the next one.
Return ==
    /\ out # NoCall \/ claims # NoCall
    /\ req' = NoCall
    /\ out' = NoCall
    /\ token' = <<>>
    /\ claims' = NoCall
    /\ UNCHANGED <<env_TRUSTED_PROXIES, TRUSTED_PROXIES, built, poisoned,
                   PEER_IP_HEADER_NAME, PROXY_MODE>>

Next ==
    \/ BuildTrustedProxies
    \/ CheckTrustedProxy
    \/ RealIpFromReq
    \/ RealIpFromSvcReq
    \/ Return

\* the resolver and the trust list
Spec == Init /\ [][Next]_vars

\* the trust list of every value made of up to MaxLines lines
InitBuild ==
    /\ env_TRUSTED_PROXIES \in {None} \cup {Some(raw) : raw \in BuildInputs}
    /\ TRUSTED_PROXIES = <<>>
    /\ built = FALSE
    /\ poisoned = FALSE
    /\ PEER_IP_HEADER_NAME = None
    /\ PROXY_MODE = FALSE
    /\ req = NoCall
    /\ out = NoCall
    /\ token = <<>>
    /\ claims = NoCall

NextBuild ==
    \/ BuildTrustedProxies
    \/ CheckTrustedProxy
    \/ Return

\* build_trusted_proxies called directly and by the first use of the static
SpecBuild == InitBuild /\ [][NextBuild]_vars

\* the claims extractor alone, on every token of up to MaxTokenLen characters
InitClaims ==
    /\ env_TRUSTED_PROXIES = Some(<<>>)
    /\ TRUSTED_PROXIES = <<>>
    /\ built = FALSE
    /\ poisoned = FALSE
    /\ PEER_IP_HEADER_NAME = None
    /\ PROXY_MODE = FALSE
    /\ req = NoCall
    /\ out = NoCall
    /\ token = <<>>
    /\ claims = NoCall

NextClaims ==
    \/ ExtractTokenClaimsUnverified
    \/ Return

SpecClaims == InitClaims /\ [][NextClaims]_vars

\* ------------------------------------------------------------ properties

\* The rejections of the resolver and of the extractor, by the error type and
\* message the caller receives.
MissingPeerAddress ==
    Err("BadRequest", "No IP Addr in Connection Info - this should only happen in tests")

MalformedPeerAddress ==
    Err("BadRequest", "Cannot parse peer IP address: invalid IP address syntax")

UntrustedProxy == Err("BadRequest", "Invalid IP Address")

MalformedToken == Err("Unauthorized", "Invalid or malformed JWT Token")

MalformedTokenBody == Err("BadRequest", "Invalid JWT Token body")

MalformedTokenClaims == Err("BadRequest", "Invalid JWT Token claims")

InSeq(x, s) == \E i \in 1..Len(s) : s[i] = x

\* the last call was one of the two resolver entry points
ResolverCall == req.fn \in {"real_ip_from_req", "real_ip_from_svc_req"}

\* the request's peer address is there and is an IP address
PeerParses == req.peer_addr.some /\ IpAddrFromStr(req.peer_addr.val).some

PeerIpOf == IpAddrFromStr(req.peer_addr.val).val

\* an override header is configured; it is on the request; its value is an IP
HeaderConfigured == PEER_IP_HEADER_NAME.some

HeaderPresent == HeaderConfigured /\ PEER_IP_HEADER_NAME.val \in DOMAIN req.headers

HeaderValueOf == req.headers[PEER_IP_HEADER_NAME.val]

OverrideIp ==
    HeaderPresent /\ HeaderValueOf.text /\ IpAddrFromStr(HeaderValueOf.str).some

OverrideIpOf == IpAddrFromStr(HeaderValueOf.str).val

\* the forwarded address is there and is an IP address
ForwardedParses ==
    req.realip_remote_addr.some /\ IpAddrFromStr(req.realip_remote_addr.val).some

ForwardedIpOf == IpAddrFromStr(req.realip_remote_addr.val).val

\* a <= b, part by part from the front
RECURSIVE LexLeq(_, _)
LexLeq(a, b) ==
    IF a = <<>> THEN TRUE
    ELSE IF Head(a) # Head(b) THEN Head(a) < Head(b)
    ELSE LexLeq(Tail(a), Tail(b))

\* ip lies between the first and the last address of the block
InBlock(cidr, ip) ==
    /\ cidr.addr.fam = ip.fam
    /\ LexLeq(FirstIp(cidr).parts, ip.parts)
    /\ LexLeq(ip.parts, LastIp(cidr).parts)

\* the lines of raw that are CIDRs after trimming, parsed, in their order
IsCidrLine(l) == trim(l) # <<>> /\ IpCidrFromStr(trim(l)).some

CidrLines(raw) == SelectSeq(Split(raw, "\n"), IsCidrLine)

ParsedLines(ls) == [i \in 1..Len(ls) |-> IpCidrFromStr(trim(ls[i])).val]

ExpectedProxies(raw) == ParsedLines(CidrLines(raw))

\* the TRUSTED_PROXIES variable is set; the trust list it configures
TrustListSet == env_TRUSTED_PROXIES.some

TrustList == IF TrustListSet THEN ExpectedProxies(env_TRUSTED_PROXIES.val) ELSE <<>>

InTrustList(ip) == \E i \in 1..Len(TrustList) : InBlock(TrustList[i], ip)

\* C1: a valid override header from a peer outside the trust list is always
\* rejected as an untrusted proxy, whatever the proxy mode.
C1_UntrustedOverrideRejected ==
    (ResolverCall /\ TrustListSet /\ PeerParses /\ OverrideIp /\ ~InTrustList(PeerIpOf))
        => out.res = UntrustedProxy

C1_Witness ==
    /\ ResolverCall /\ PeerParses /\ OverrideIp /\ ~InTrustList(PeerIpOf)
    /\ ~PROXY_MODE
    /\ Len(TrustList) > 0
    /\ out.res = UntrustedProxy

\* C2: a valid override header from a trusted peer gives exactly the header's
\* address, and the forwarded address is not read.
C2_TrustedOverrideWins ==
    (ResolverCall /\ PeerParses /\ OverrideIp /\ InTrustList(PeerIpOf))
        => /\ out.res = Ok(OverrideIpOf)
           /\ ~InSeq("realip_remote_addr", out.reads)

C2_Witness ==
    /\ ResolverCall /\ PeerParses /\ OverrideIp /\ InTrustList(PeerIpOf)
    /\ PROXY_MODE
    /\ ForwardedParses
    /\ ForwardedIpOf # OverrideIpOf
    /\ PeerIpOf # OverrideIpOf
    /\ out.res = Ok(OverrideIpOf)

\* C3: without an override and with the proxy mode off the result is the
\* peer address, and the trust list is not consulted.
C3_DirectPeer ==
    (ResolverCall /\ PeerParses /\ ~OverrideIp /\ ~PROXY_MODE)
        => /\ out.res = Ok(PeerIpOf)
           /\ ~InSeq("TRUSTED_PROXIES", out.reads)

C3_Witness ==
    /\ ResolverCall /\ PeerParses /\ ~OverrideIp /\ ~PROXY_MODE
    /\ Len(TrustList) > 0
    /\ ~InTrustList(PeerIpOf)
    /\ out.res = Ok(PeerIpOf)

\* C4: without an override and with the proxy mode on, an untrusted peer is
\* rejected before the forwarded address is read, and for a trusted peer the
\* result is the parsed forwarded address, or MalformedPeerAddress when that
\* is unparsable or not there at all.
C4_ProxyFallback ==
    (ResolverCall /\ TrustListSet /\ PeerParses /\ ~OverrideIp /\ PROXY_MODE)
        => IF ~InTrustList(PeerIpOf)
           THEN out.res = UntrustedProxy /\ ~InSeq("realip_remote_addr", out.reads)
           ELSE IF ForwardedParses THEN out.res = Ok(ForwardedIpOf)
           ELSE out.res = MalformedPeerAddress

\* a trusted peer forwarding a text that is no address
C4_Witness ==
    /\ ResolverCall /\ PeerParses /\ ~OverrideIp /\ PROXY_MODE
    /\ InTrustList(PeerIpOf)
    /\ ~ForwardedParses
    /\ InSeq("realip_remote_addr", out.reads)
    /\ out.res = MalformedPeerAddress

\* C5: check_trusted_proxy accepts an address exactly when it lies between
\* the first and the last address of a block of the list, of its family.
C5_TrustIsMembership ==
    (req.fn = "check_trusted_proxy" /\ TrustListSet)
        => /\ out.res.ok <=> InTrustList(req.peer_ip)
           /\ ~out.res.ok => out.res = UntrustedProxy

\* the address right after a /28 block is rejected
C5_Witness ==
    /\ req.fn = "check_trusted_proxy"
    /\ \E i \in 1..Len(TrustList) :
          /\ TrustList[i].len = 28
          /\ req.peer_ip = SuccIp(LastIp(TrustList[i]))
    /\ ~out.res.ok

\* C6: build_trusted_proxies gives exactly the CIDR lines of its input, in
\* order; blank and unparsable lines contribute nothing and drop nothing,
\* and the static holds that list once it is initialised.
C6_BuildKeepsCidrLines ==
    /\ (req.fn = "build_trusted_proxies" /\ TrustListSet)
        => /\ ~out.panic
           /\ out.res = ExpectedProxies(env_TRUSTED_PROXIES.val)
    /\ built
        => /\ TrustListSet
           /\ TRUSTED_PROXIES = ExpectedProxies(env_TRUSTED_PROXIES.val)

\* a line that is no CIDR between two that are
C6_Witness ==
    /\ req.fn = "build_trusted_proxies"
    /\ env_TRUSTED_PROXIES.some
    /\ Len(Split(env_TRUSTED_PROXIES.val, "\n")) = 3
    /\ IsCidrLine(Split(env_TRUSTED_PROXIES.val, "\n")[1])
    /\ trim(Split(env_TRUSTED_PROXIES.val, "\n")[2]) # <<>>
    /\ ~IsCidrLine(Split(env_TRUSTED_PROXIES.val, "\n")[2])
    /\ IsCidrLine(Split(env_TRUSTED_PROXIES.val, "\n")[3])
    /\ Len(out.res) = 2
    /\ Len(out.log) = 1

\* the positions of the "." of the token, and the first and second of them
Dots == {i \in 1..Len(token) : token[i] = "."}

FirstDot == CHOOSE i \in Dots : \A j \in Dots : i <= j

SecondDot == CHOOSE i \in Dots \ {FirstDot} : \A j \in Dots \ {FirstDot} : i <= j

BodyText == Slice(token, FirstDot + 1, SecondDot - 1)

\* C7: the outcome is decided by the first failing step of split, decode,
\* deserialize; the body is the text between the first and the second ".".
C7_ExtractOutcome ==
    claims # NoCall
        => IF Cardinality(Dots) < 2
           THEN claims.res = MalformedToken /\ claims.steps = <<"split">>
           ELSE IF ~B64UrlNoPadDecode(BodyText).ok
           THEN claims.res = MalformedTokenBody /\ claims.steps = <<"split", "decode">>
           ELSE IF ~from_str(from_utf8_lossy(B64UrlNoPadDecode(BodyText).val)).ok
           THEN claims.res = MalformedTokenClaims
           ELSE claims.res = from_str(from_utf8_lossy(B64UrlNoPadDecode(BodyText).val))

\* a token with a third "." whose claims are extracted
C7_Witness ==
    /\ claims # NoCall
    /\ Cardinality(Dots) = 3
    /\ BodyText # <<>>
    /\ claims.res.ok

\* C8: a missing or unparsable peer address is rejected first, whatever the
\* header, the proxy mode and the trust list, and nothing else is read.
C8_PeerFirst ==
    (ResolverCall /\ ~PeerParses)
        => /\ out.res = IF req.peer_addr.some THEN MalformedPeerAddress
                        ELSE MissingPeerAddress
           /\ out.reads = <<"peer_addr">>

C8_Witness ==
    /\ ResolverCall
    /\ ~req.peer_addr.some
    /\ OverrideIp
    /\ PROXY_MODE
    /\ out.res = MissingPeerAddress

\* the diagnostic of an untrusted proxy, naming the peer
UntrustedLog ==
    Log("error", "Invalid request from IP {} which is not a trusted proxy",
        [ip |-> PeerIpOf])

IsError(l) == l.level = "error"

\* what the header lookup logs: nothing without a configured header or with
\* a valid value, the trace alone when the header is absent or no text, an
\* error and the trace when its text is no IP address
HeaderTrace ==
    Log("trace", "no PEER IP from PEER_IP_HEADER_NAME: '{}'",
        [name |-> PEER_IP_HEADER_NAME.val])

HeaderLog ==
    IF ~HeaderConfigured \/ OverrideIp THEN <<>>
    ELSE IF ~HeaderPresent \/ ~HeaderValueOf.text THEN <<HeaderTrace>>
    ELSE <<Log("error", "Cannot parse IP from PEER_IP_HEADER_NAME: {}",
               [err |-> "invalid IP address syntax"]), HeaderTrace>>

\* the call rejected the request with an error response
Rejected == ~out.res.ok /\ out.res.typ # "panic"

\* the events of the build of the trust list: an error for every line that
\* is not blank and no CIDR, in the order of the lines
IsBadLine(l) == trim(l) # <<>> /\ ~IpCidrFromStr(trim(l)).some

BadLines(raw) == SelectSeq(Split(raw, "\n"), IsBadLine)

LineErrors(ls) ==
    [i \in 1..Len(ls) |->
        Log("error", "Cannot parse trusted proxy entry to CIDR: {}",
            [err |-> IpCidrFromStr(trim(ls[i])).err])]

ExpectedBuildLog(raw) == LineErrors(BadLines(raw))

\* the call is the first to use the trust list, and so builds it
FirstUse == InSeq("TRUSTED_PROXIES", out.reads) /\ ~req.initialised

BuildLog ==
    IF FirstUse /\ TrustListSet THEN ExpectedBuildLog(env_TRUSTED_PROXIES.val)
    ELSE <<>>

\* C9 as claimed: every rejection logs an error, which includes the peer IP
\* where there is one, and an absent configured header logs the trace only.
C9_Original ==
    ResolverCall
        => /\ Rejected
                => \E i \in 1..Len(out.log) :
                      /\ IsError(out.log[i])
                      /\ PeerParses => out.log[i].arg = [ip |-> PeerIpOf]
           /\ (PeerParses /\ HeaderConfigured /\ ~HeaderPresent)
                => SelectSeq(out.log, IsError) \in {<<>>, <<UntrustedLog>>}

\* C9 amended: only the rejection of an untrusted proxy logs an error with
\* the peer IP; a missing or malformed peer or forwarded address is rejected
\* without a diagnostic of its own; the header lookup logs the trace alone
\* when the configured header is absent; the call that is the first to use
\* the trust list also logs the errors of its build, one for every
\* configuration line that is no CIDR, before the verdict on the peer.
C9_Diagnostics ==
    ResolverCall
        => out.log = (IF PeerParses THEN HeaderLog ELSE <<>>)
                        \o BuildLog
                        \o (IF out.res = UntrustedProxy THEN <<UntrustedLog>> ELSE <<>>)

\* a trusted peer whose forwarded address is rejected, in the call that
\* builds a trust list with a bad line
C9_Witness ==
    /\ ResolverCall
    /\ PeerParses /\ HeaderConfigured /\ ~HeaderPresent
    /\ FirstUse
    /\ out.res = MalformedPeerAddress
    /\ out.log = <<HeaderTrace>> \o BuildLog
    /\ Len(BuildLog) = 1

\* what ip_from_cust_header returns when no header is configured
NoHeader == [res |-> None, log |-> <<>>]

\* what &*TRUSTED_PROXIES gave at the time of the call
StaticBefore ==
    IF req.poisoned
    THEN [proxies |-> <<>>, log |-> <<>>, panic |-> TRUE,
          msg |-> "Once instance has previously been poisoned"]
    ELSE IF req.initialised
    THEN [proxies |-> TRUSTED_PROXIES, log |-> <<>>, panic |-> FALSE]
    ELSE build_trusted_proxies(env_TRUSTED_PROXIES)

\* the call's result had no override header been configured
WithoutHeader ==
    IF req.fn = "real_ip_from_req"
    THEN ReqResolve(parse_peer_addr(req.peer_addr), NoHeader,
                    CheckIn(StaticBefore, PeerIpOf),
                    parse_peer_addr(req.realip_remote_addr))
    ELSE SvcReqResolve(parse_peer_addr(req.peer_addr), NoHeader,
                       CheckIn(StaticBefore, PeerIpOf),
                       parse_peer_addr(req.realip_remote_addr))

\* C10: a configured header that is absent or holds no IP address changes
\* nothing: the result and what is read are those of the same request with no
\* header configured, and the trust list is read only in proxy mode.
C10_HeaderFallsThrough ==
    (ResolverCall /\ HeaderConfigured /\ ~OverrideIp)
        => /\ out.res = WithoutHeader.res
           /\ out.reads = WithoutHeader.reads
           /\ InSeq("TRUSTED_PROXIES", out.reads) => PROXY_MODE

C10_Witness ==
    /\ ResolverCall /\ HeaderConfigured /\ ~OverrideIp
    /\ HeaderPresent
    /\ HeaderValueOf.text
    /\ PeerParses
    /\ ~InTrustList(PeerIpOf)
    /\ ~PROXY_MODE
    /\ out.res = Ok(PeerIpOf)

====
